---- MODULE Spec2Model ----
(***************************************************************************)
(* Model of the char_counter Extism plug-in                                *)
(* (examples/wasm/rust/char_counter).  The plug-in exports one function,   *)
(* CountCharacters, which reads the host's input buffer, decodes it as     *)
(* JSON, resolves the match set and the case policy from static_data,      *)
(* counts the characters of request.Body that are in the match set and     *)
(* writes a CharacterReport to the host's output buffer, or sets the       *)
(* host's error and returns -1.                                            *)
(*                                                                         *)
(* Characters are Unicode scalar values (integers), strings are sequences  *)
(* of them.  A request body is a unit string repeated `repeat` times, so   *)
(* that bodies near the largest String a wasm32 build can hold are inputs  *)
(* too; repeat > 1 only goes with a unit whose lower-casing does not       *)
(* depend on the neighbouring characters.                                  *)
(***************************************************************************)
EXTENDS Integers, Sequences, FiniteSets, TLC

VARIABLES input, pc, status, output, error, prev

vars == <<input, pc, status, output, error, prev>>

---------------------------------------------------------------------------
(* Characters *)

LatinCapitalA == 65
LatinCapitalZ == 90
LatinSmallA == 97
LatinSmallZ == 122
LatinSmallI == 105
Space == 32
CapitalIWithDot == 304
CombiningDotAbove == 775
CapitalSigma == 931
SmallFinalSigma == 962
SmallSigma == 963

\* "aeiouAEIOU"
DefaultVowels == <<97, 101, 105, 111, 117, 65, 69, 73, 79, 85>>

\* The characters request bodies and search_characters are drawn from.
Chars ==
  {LatinSmallA, LatinCapitalA, Space, CapitalIWithDot, CombiningDotAbove, CapitalSigma}

\* Characters whose lower-casing is the same wherever they stand.
BulkChars == {LatinSmallA, LatinCapitalA, Space, CapitalIWithDot}

---------------------------------------------------------------------------
(* Bounds *)

MaxBody == 2
MaxSet == 2
Slack == 1
MaxBodyDet == 1

\* isize::MAX of the wasm32 target: no String holds more bytes.
IsizeMax == 2147483647
\* i32::MAX, the largest value of CharacterReport.count.
I32Max == 2147483647

---------------------------------------------------------------------------
(* Strings *)

Range(s) == {s[i] : i \in 1..Len(s)}

Reverse(s) == [i \in 1..Len(s) |-> s[Len(s) + 1 - i]]

Strings(n) == UNION {[1..k -> Chars] : k \in 0..n}

\* char::len_utf8
len_utf8(c) == IF c < 128 THEN 1 ELSE IF c < 2048 THEN 2 ELSE IF c < 65536 THEN 3 ELSE 4

RECURSIVE str_len(_)
\* str::len, the number of bytes of the UTF-8 encoding
str_len(s) == IF s = <<>> THEN 0 ELSE len_utf8(Head(s)) + str_len(Tail(s))

\* core::unicode::Cased, on the characters of the model
Cased(c) ==
  \/ c \in LatinCapitalA..LatinCapitalZ
  \/ c \in LatinSmallA..LatinSmallZ
  \/ c \in {CapitalIWithDot, CapitalSigma, SmallFinalSigma, SmallSigma}

\* core::unicode::Case_Ignorable, on the characters of the model
Case_Ignorable(c) == c = CombiningDotAbove

\* char::to_lowercase: one character to its lower-case mapping, which is
\* two characters for U+0130.
char_to_lowercase(c) ==
  IF c \in LatinCapitalA..LatinCapitalZ THEN <<c + 32>>
  ELSE IF c = CapitalIWithDot THEN <<LatinSmallI, CombiningDotAbove>>
  ELSE IF c = CapitalSigma THEN <<SmallSigma>>
  ELSE <<c>>

RECURSIVE case_ignorable_then_cased(_)
\* iter.skip_while(Case_Ignorable).next() is a cased character
case_ignorable_then_cased(iter) ==
  IF iter = <<>> THEN FALSE
  ELSE IF Case_Ignorable(Head(iter)) THEN case_ignorable_then_cased(Tail(iter))
  ELSE Cased(Head(iter))

\* The Final_Sigma rule of str::to_lowercase for the sigma at position i.
map_uppercase_sigma(from, i) ==
  LET is_word_final ==
        /\ case_ignorable_then_cased(Reverse(SubSeq(from, 1, i - 1)))
        /\ ~case_ignorable_then_cased(SubSeq(from, i + 1, Len(from)))
  IN IF is_word_final THEN <<SmallFinalSigma>> ELSE <<SmallSigma>>

RECURSIVE lowercase_from(_, _)
lowercase_from(s, i) ==
  IF i > Len(s) THEN <<>>
  ELSE (IF s[i] = CapitalSigma THEN map_uppercase_sigma(s, i)
        ELSE char_to_lowercase(s[i])) \o lowercase_from(s, i + 1)

\* str::to_lowercase
to_lowercase(s) == lowercase_from(s, 1)

---------------------------------------------------------------------------
(* Input and output data *)

NoString == [some |-> FALSE, val |-> <<>>]
SomeString(s) == [some |-> TRUE, val |-> s]
NoBool == [some |-> FALSE, val |-> FALSE]
SomeBool(b) == [some |-> TRUE, val |-> b]

\* struct StaticData { search_characters: Option<String>, case_sensitive: Option<bool> }
StaticData(n) ==
  [search_characters : {NoString} \cup {SomeString(s) : s \in Strings(n)},
   case_sensitive : {NoBool} \cup {SomeBool(b) : b \in BOOLEAN}]

NoStaticData ==
  [some |-> FALSE, val |-> [search_characters |-> NoString, case_sensitive |-> NoBool]]

\* InputData.static_data: Option<StaticData>
StaticDataOptions(n) == {NoStaticData} \cup {[some |-> TRUE, val |-> sd] : sd \in StaticData(n)}

\* The repeat counts of the long bodies: the largest ones whose bytes, at
\* d bytes per repetition, fit a String, and the first few that do not fit
\* at d + 1 bytes.
Repeats ==
  UNION {{(IsizeMax \div d) - k : k \in 0..Slack} \cup
         {(IsizeMax \div (d + 1)) + 1 + k : k \in 0..Slack} : d \in 1..3}

\* The payloads the host can pass: what the bytes are (not UTF-8, not
\* JSON, JSON without request.Body, or the expected shape), the body and
\* static_data.
Payloads(shapes, bodies, n) ==
  [shape : shapes, body : bodies, repeat : {1}, static_data : StaticDataOptions(n)]

LongPayloads(n) ==
  {p \in [shape : {"ok"}, body : {<<c>> : c \in BulkChars}, repeat : Repeats,
          static_data : StaticDataOptions(n)] :
     p.repeat <= IsizeMax \div str_len(p.body)}

Inputs ==
  Payloads({"ok"}, Strings(MaxBody), MaxSet)
    \cup Payloads({"not_utf8", "bad_json", "no_body"}, {<<>>}, MaxSet)
    \cup LongPayloads(MaxSet)

NoReport == [some |-> FALSE, count |-> 0, characters |-> <<>>]
NoError == ""
NoStatus == 1

---------------------------------------------------------------------------
(* count_characters *)

Ok(report) == [tag |-> "Ok", count |-> report.count, characters |-> report.characters, msg |-> ""]
Err(msg) == [tag |-> "Err", count |-> 0, characters |-> <<>>, msg |-> msg]
Panic == [tag |-> "Panic", count |-> 0, characters |-> <<>>, msg |-> "capacity overflow"]

\* A decoder that lets a missing request.Body default to the empty string.
from_str_ok_body_defaulted(input_json) == input_json.shape \in {"ok", "no_body"}

\* serde_json::from_str::<InputData>: fails on anything but a JSON object
\* with a request.Body string.
from_str_ok(input_json) == input_json.shape = "ok"

\* A resolver that falls back to the vowels for an empty search_characters too.
matching_chars_empty_defaulted(input_data) ==
  IF /\ input_data.static_data.some
     /\ input_data.static_data.val.search_characters.some
     /\ input_data.static_data.val.search_characters.val # <<>>
  THEN input_data.static_data.val.search_characters.val
  ELSE DefaultVowels

\* A resolver that trims search_characters and falls back to the vowels
\* when nothing is left.
matching_chars_trimmed(input_data) ==
  IF /\ input_data.static_data.some
     /\ input_data.static_data.val.search_characters.some
     /\ ~(Range(input_data.static_data.val.search_characters.val) \subseteq {Space})
  THEN input_data.static_data.val.search_characters.val
  ELSE DefaultVowels

\* static_data.and_then(|sd| sd.search_characters).unwrap_or("aeiouAEIOU")
matching_chars(input_data) ==
  IF input_data.static_data.some /\ input_data.static_data.val.search_characters.some
  THEN input_data.static_data.val.search_characters.val
  ELSE DefaultVowels

\* A resolver whose default is case sensitive.
case_sensitive_default_true(input_data) ==
  IF input_data.static_data.some /\ input_data.static_data.val.case_sensitive.some
  THEN input_data.static_data.val.case_sensitive.val
  ELSE TRUE

\* static_data.and_then(|sd| sd.case_sensitive).unwrap_or(false)
case_sensitive(input_data) ==
  IF input_data.static_data.some /\ input_data.static_data.val.case_sensitive.some
  THEN input_data.static_data.val.case_sensitive.val
  ELSE FALSE

\* The repeated unit of search_text: the body, lower-cased unless case_sensitive.
search_text(input_data) ==
  IF case_sensitive(input_data) THEN input_data.body ELSE to_lowercase(input_data.body)

\* target_chars: the match set, lower-cased unless case_sensitive.
target_chars(input_data) ==
  IF case_sensitive(input_data) THEN matching_chars(input_data)
  ELSE to_lowercase(matching_chars(input_data))

\* target_chars.chars().collect::<HashSet<char>>()
target_set(input_data) == Range(target_chars(input_data))

\* A cast through a 16-bit integer.
as_i32_through_i16(n) == (((n % 65536) + 32768) % 65536) - 32768

\* usize as i32 on wasm32: the low 32 bits, read as two's complement.
\* A usize above i32::MAX comes out negative.
as_i32(n) == IF n <= I32Max THEN n ELSE (n - I32Max) - I32Max - 2

\* search_text.chars().filter(|c| target_set.contains(c)).count()
matches(input_data) ==
  Len(SelectSeq(search_text(input_data), LAMBDA c : c \in target_set(input_data)))
    * input_data.repeat

\* The String search_text can be allocated: at most isize::MAX bytes.
fits(input_data) ==
  LET unit == str_len(search_text(input_data))
  IN unit = 0 \/ input_data.repeat <= IsizeMax \div unit

\* A count_characters that reports the lower-cased target_chars.
count_characters_reports_target(input_json) ==
  IF ~from_str_ok(input_json) THEN Err("Invalid JSON input")
  ELSE IF matching_chars(input_json) = <<>> THEN Err("Character set cannot be empty")
  ELSE IF ~fits(input_json) THEN Panic
  ELSE Ok([count |-> as_i32(matches(input_json)),
           characters |-> target_chars(input_json)])

\* A count_characters that counts on from the count of the last report
\* (a counter kept in a static and not reset).
count_characters_keeps_counter(input_json) ==
  IF ~from_str_ok(input_json) THEN Err("Invalid JSON input")
  ELSE IF matching_chars(input_json) = <<>> THEN Err("Character set cannot be empty")
  ELSE IF ~fits(input_json) THEN Panic
  ELSE Ok([count |-> as_i32(output.count + matches(input_json)),
           characters |-> matching_chars(input_json)])

count_characters(input_json) ==
  IF ~from_str_ok(input_json) THEN Err("Invalid JSON input")
  ELSE IF matching_chars(input_json) = <<>> THEN Err("Character set cannot be empty")
  ELSE IF ~fits(input_json) THEN Panic
  ELSE Ok([count |-> as_i32(matches(input_json)),
           characters |-> matching_chars(input_json)])

---------------------------------------------------------------------------
(* The exported function *)

\* try_input!(): extism_pdk::input::<String>() fails on bytes that are not UTF-8.
try_input(payload) ==
  IF payload.shape = "not_utf8" THEN Err("invalid utf-8 sequence") ELSE count_characters(payload)

\* exports::CountCharacters, with internal::return_error
CountCharacters ==
  /\ pc = "ready"
  /\ LET ret == try_input(input)
     IN CASE ret.tag = "Ok" ->
               /\ output' = [some |-> TRUE, count |-> ret.count, characters |-> ret.characters]
               /\ status' = 0
               /\ pc' = "returned"
               /\ UNCHANGED error
          [] ret.tag = "Err" ->
               /\ error' = ret.msg
               /\ status' = -1
               /\ pc' = "returned"
               /\ UNCHANGED output
          [] OTHER ->
               /\ pc' = "trapped"
               /\ UNCHANGED <<status, output, error>>
  /\ UNCHANGED <<input, prev>>

\* What the invocation that has returned gave the host: the status, the
\* report it wrote (status 0) or the error it set (status -1).
Outcome ==
  [status |-> status,
   report |-> IF status = 0 THEN output ELSE NoReport,
   error |-> IF status = -1 THEN error ELSE NoError]

\* The payloads of the runs with several invocations.
DetChars == {LatinSmallA, LatinCapitalA}
DetSets == {<<>>, <<LatinSmallA>>, <<LatinCapitalA>>}
DetStaticData ==
  {NoStaticData} \cup
  {[some |-> TRUE, val |-> sd] :
     sd \in [search_characters : {NoString} \cup {SomeString(s) : s \in DetSets},
             case_sensitive : {NoBool} \cup {SomeBool(b) : b \in BOOLEAN}]}
DetInputs ==
  [shape : {"ok"}, body : UNION {[1..k -> DetChars] : k \in 0..MaxBodyDet}, repeat : {1},
   static_data : DetStaticData]
    \cup [shape : {"bad_json"}, body : {<<>>}, repeat : {1}, static_data : DetStaticData]

\* The host calls the plug-in again with a payload of its choice; what the
\* last invocation left in the output and error buffers is still there.
HostCall ==
  /\ pc = "returned"
  /\ input' \in DetInputs
  /\ pc' = "ready"
  /\ UNCHANGED <<status, output, error, prev>>

\* The observer keeps one returned invocation, to compare a later one with.
Remember ==
  /\ pc = "returned"
  /\ prev' = [some |-> TRUE, input |-> input, outcome |-> Outcome]
  /\ UNCHANGED <<input, pc, status, output, error>>

NoPrev ==
  [some |-> FALSE, input |-> CHOOSE p \in DetInputs : TRUE,
   outcome |-> [status |-> NoStatus, report |-> NoReport, error |-> NoError]]

Init ==
  /\ input \in Inputs
  /\ pc = "ready"
  /\ status = NoStatus
  /\ output = NoReport
  /\ error = NoError
  /\ prev = NoPrev

Next == CountCharacters

Spec == Init /\ [][Next]_vars

InitDet ==
  /\ input \in DetInputs
  /\ pc = "ready"
  /\ status = NoStatus
  /\ output = NoReport
  /\ error = NoError
  /\ prev = NoPrev

NextDet == CountCharacters \/ HostCall \/ Remember

SpecDet == InitDet /\ [][NextDet]_vars

---------------------------------------------------------------------------
(* Vocabulary of the properties *)

Returned == pc = "returned"
Succeeded == pc = "returned" /\ status = 0

EmptySetMessage == "Character set cannot be empty"
DecodeMessage == "Invalid JSON input"

\* static_data.search_characters is present in the payload
SetSupplied == input.static_data.some /\ input.static_data.val.search_characters.some
SuppliedSet == input.static_data.val.search_characters.val
\* static_data.case_sensitive is present in the payload
CaseSupplied == input.static_data.some /\ input.static_data.val.case_sensitive.some
SuppliedCase == input.static_data.val.case_sensitive.val

\* The payload with case_sensitive set to b, the rest as it is.
WithCase(p, b) ==
  [p EXCEPT !.static_data =
     [some |-> TRUE, val |-> [search_characters |-> p.static_data.val.search_characters,
                              case_sensitive |-> SomeBool(b)]]]

\* The payload with search_characters set to s, the rest as it is.
WithSet(p, s) ==
  [p EXCEPT !.static_data =
     [some |-> TRUE, val |-> [search_characters |-> SomeString(s),
                              case_sensitive |-> p.static_data.val.case_sensitive]]]

\* The number of positions of text whose character is in the set chars,
\* for a text repeated n times.
Positions(text, chars, n) == Cardinality({i \in 1..Len(text) : text[i] \in chars}) * n

\* The number of Unicode scalar values of the request body as supplied.
BodyScalars == Len(input.body) * input.repeat

\* What the host sees of a result of the call.
OutcomeOf(ret) ==
  [status |-> IF ret.tag = "Ok" THEN 0 ELSE -1,
   report |-> IF ret.tag = "Ok"
              THEN [some |-> TRUE, count |-> ret.count, characters |-> ret.characters]
              ELSE NoReport,
   error |-> IF ret.tag = "Err" THEN ret.msg ELSE NoError]

---------------------------------------------------------------------------
(* C1 *)

\* C1: the count of a report never exceeds the number of Unicode scalar
\* values of the request body as supplied, whatever the match set and the
\* case_sensitive flag.
C1_CountWithinBody == Succeeded => output.count >= 0 /\ output.count <= BodyScalars

---------------------------------------------------------------------------
(* C2 *)

\* C2: an explicitly empty search_characters fails with the empty-match-set
\* error and writes no report; an absent static_data or search_characters
\* resolves to the vowels and never fails with that error.
C2_EmptyFailsAbsentDefaults ==
  input.shape = "ok" =>
    /\ (Returned /\ SetSupplied /\ SuppliedSet = <<>>) =>
         status = -1 /\ error = EmptySetMessage /\ output = NoReport
    /\ (pc # "ready" /\ ~SetSupplied) =>
         /\ error # EmptySetMessage
         /\ Returned => status = 0 /\ output.some /\ output.characters = DefaultVowels

C2_Witness ==
  /\ Returned /\ input.shape = "ok"
  /\ SetSupplied /\ SuppliedSet = <<>>
  /\ CaseSupplied /\ input.body # <<>>
  /\ error = EmptySetMessage

---------------------------------------------------------------------------
(* C3 *)

\* s is empty after trimming white space
EmptyAfterTrim(s) == Range(s) \subseteq {Space}

\* The lower-cased or unchanged vowels, as the resolved case policy has it.
VowelTargets == IF case_sensitive(input) THEN DefaultVowels ELSE to_lowercase(DefaultVowels)

\* C3 as claimed: with static_data absent, search_characters absent or
\* search_characters empty after trimming, the vowels are counted against
\* and reported.
C3_TrimmedDefaults ==
  (Returned /\ input.shape = "ok" /\ (~SetSupplied \/ EmptyAfterTrim(SuppliedSet))) =>
    /\ status = 0
    /\ output.characters = DefaultVowels
    /\ output.count = Positions(search_text(input), Range(VowelTargets), input.repeat)

\* C3 as amended: with static_data or search_characters absent, the
\* vowels are counted against and reported; a supplied search_characters is
\* never trimmed: an empty one is rejected and one of white space only is
\* itself counted against and reported.
C3_AbsentDefaults ==
  (Returned /\ input.shape = "ok") =>
    /\ ~SetSupplied =>
         /\ status = 0
         /\ output.characters = DefaultVowels
         /\ output.count = Positions(search_text(input), Range(VowelTargets), input.repeat)
    /\ (SetSupplied /\ SuppliedSet = <<>>) => status = -1 /\ error = EmptySetMessage
    /\ (SetSupplied /\ SuppliedSet # <<>> /\ EmptyAfterTrim(SuppliedSet)) =>
         /\ status = 0
         /\ output.characters = SuppliedSet
         /\ output.count = Positions(search_text(input), {Space}, input.repeat)

C3_Witness ==
  /\ Succeeded /\ input.shape = "ok"
  /\ SetSupplied /\ SuppliedSet = <<Space, Space>>
  /\ output.characters = <<Space, Space>>
  /\ output.count = 1

---------------------------------------------------------------------------
(* C4 *)

\* C4: a report's characters are search_characters exactly as supplied, or
\* the vowels when none is supplied, whatever the case policy.
C4_CharactersEchoed ==
  Succeeded => output.characters = (IF SetSupplied THEN SuppliedSet ELSE DefaultVowels)

C4_Witness ==
  /\ Succeeded
  /\ CaseSupplied /\ ~SuppliedCase
  /\ SetSupplied /\ SuppliedSet = <<LatinCapitalA, CapitalIWithDot>>
  /\ output.characters = <<LatinCapitalA, CapitalIWithDot>>
  /\ output.count > 0

---------------------------------------------------------------------------
(* C5 *)

\* C5: for the body and the match set of a report, the count with
\* case_sensitive = false is at least the count with case_sensitive = true.
C5_FoldingOnlyAdds ==
  (Succeeded /\ SetSupplied /\ CaseSupplied /\ SuppliedCase) =>
    LET folded == count_characters(WithCase(input, FALSE))
    IN folded.tag = "Ok" => folded.count >= output.count

---------------------------------------------------------------------------
(* C6 *)

\* C6: the count of every report is the number of matching characters and
\* is not negative; the cast to i32 changes nothing.
C6_CountNotWrapped ==
  Succeeded =>
    /\ output.count >= 0
    /\ output.count = Positions(search_text(input), target_set(input), input.repeat)

C6_Witness ==
  /\ Succeeded
  /\ input.repeat = IsizeMax
  /\ output.count = I32Max

\* The lower-cased body of some long payloads does not fit a String: the
\* call traps and reports nothing.
C6_TrapWitness == pc = "trapped" /\ input.body = <<CapitalIWithDot>>

---------------------------------------------------------------------------
(* C7 *)

\* C7: a payload that is not JSON or has no request.Body gives status -1
\* and the decode error and no report, whatever static_data holds; a report
\* is written only with status 0.
C7_DecodeFailsFirst ==
  /\ (Returned /\ input.shape \in {"bad_json", "no_body"}) =>
       status = -1 /\ error = DecodeMessage /\ output = NoReport
  /\ output.some => status = 0

C7_Witness ==
  /\ Returned /\ input.shape = "no_body"
  /\ SetSupplied /\ SuppliedSet = <<>>
  /\ status = -1 /\ error = DecodeMessage

---------------------------------------------------------------------------
(* C8 *)

\* C8: with case_sensitive absent the outcome is the one of the same
\* payload with case_sensitive = false; with search_characters absent and
\* case_sensitive present the vowels are used; with both absent every
\* upper-case and lower-case vowel of the body is counted.
C8_FieldsResolvedAlone ==
  (Returned /\ input.shape = "ok") =>
    /\ ~CaseSupplied => Outcome = OutcomeOf(count_characters(WithCase(input, FALSE)))
    /\ (~SetSupplied /\ CaseSupplied) => status = 0 /\ output.characters = DefaultVowels
    /\ (~SetSupplied /\ ~CaseSupplied) =>
         output.count >= Positions(input.body, Range(DefaultVowels), input.repeat)

C8_Witness ==
  /\ Succeeded
  /\ ~input.static_data.some
  /\ input.body = <<LatinCapitalA, LatinSmallA>>
  /\ output.count = 2

C8_WitnessSetAbsent ==
  /\ Succeeded
  /\ ~SetSupplied /\ CaseSupplied /\ SuppliedCase
  /\ output.characters = DefaultVowels

---------------------------------------------------------------------------
(* C9 *)

\* C9: an invocation with the payload of a remembered earlier invocation
\* has the same outcome, whatever was invoked before or in between.
C9_SameInputSameOutcome ==
  (Returned /\ prev.some /\ prev.input = input) => Outcome = prev.outcome

\* A second invocation that succeeds with a count after another one failed.
C9_Witness ==
  /\ Returned /\ prev.some /\ prev.input = input
  /\ status = 0 /\ output.count > 0
  /\ error # NoError

---------------------------------------------------------------------------
(* C10 *)

\* C10: the count is the number of positions of the body (lower-cased
\* unless case_sensitive) whose character is in the match set (lower-cased
\* unless case_sensitive), and any search_characters with the same
\* characters, repeated or reordered, gives the same count.
C10_CountOfSetOnly ==
  (Succeeded /\ SetSupplied) =>
    /\ output.count = Positions(search_text(input), Range(target_chars(input)), input.repeat)
    /\ \A s \in Strings(MaxSet) :
         Range(s) = Range(SuppliedSet) =>
           count_characters(WithSet(input, s)).count = output.count

====
